---- MODULE Spec2Model ----
(***************************************************************************)
(* Model of the Modelia AI Studio generation pipeline:                     *)
(*   src/lib/storage.ts  history persistence on localStorage               *)
(*   src/lib/api.ts      mock endpoint, retry loop, RequestManager         *)
(*   src/lib/store.ts    the zustand store's generation and history actions*)
(*                                                                         *)
(* JavaScript is single threaded: a handler runs to the end of its         *)
(* synchronous code and of the microtasks (promise continuations) it       *)
(* leaves, and only timers (delay) and user events start new handlers.     *)
(* One action of the model is therefore one user call or one elapsed       *)
(* timer, with every continuation that runs before the next timer.         *)
(*                                                                         *)
(* Optional values (undefined / value) are the sequences <<>> and <<v>>.   *)
(* Timestamps are abstracted to the index of the endpoint call during      *)
(* which the value was created; image URLs and createdAt are left out.     *)
(***************************************************************************)
EXTENDS Integers, Sequences, FiniteSets, TLC

VARIABLES
    localStorage,      \* window.localStorage: key -> optional JSON text
    storageAvailable,  \* whether localStorage accepts the probe write
    history,           \* store.history (items: the in-memory view)
    generation,        \* store.generation
    preview,           \* store.preview
    form,              \* store.form (validity flags)
    activeRequests,    \* RequestManager.activeRequests: requestId -> controller
    subs,              \* the createGeneration calls made so far, in order
    savedLog,          \* items recorded since the empty history, while the
                       \* run is only saves of new ids with storage available
    toggles,           \* favourite toggles made so far in the run
    abortHold,         \* abortGeneration was called while generating, and
                       \* neither startGeneration nor retryGeneration since
    resave,            \* set by a save of an id the list already held: that
                       \* id and the length of the list read before the save
    removed,           \* set by removeFromHistory of an id the list held: that
                       \* id; undefined after any other history action
    cleared,           \* clearAllHistory was called, and no saveHistoryItem
                       \* since
    backoffs,          \* the backoff delays one run of the retry loop has
                       \* awaited so far, in order (delay n after attempt n)
    validation,        \* the last request handed to the validators, with what
                       \* validateGenerationRequest threw and what
                       \* validatePrompt returned for its prompt
    endpointCall       \* the last generateImage call made on its own: the
                       \* delay it waited and how it ended

vars == <<localStorage, storageAvailable, history, generation, preview, form,
          activeRequests, subs, savedLog, toggles, abortHold, resave, removed, cleared,
          backoffs,
          validation, endpointCall>>

storeVars == <<generation, preview, form>>
apiVars == <<activeRequests, subs, abortHold>>
historyGhosts == <<savedLog, toggles, resave, removed, cleared>>
unitVars == <<backoffs, validation, endpointCall>>

(***************************************************************************)
(* Bounds of the model                                                     *)
(***************************************************************************)
NumItemIds == 6    \* distinct history item ids used by the history runs
MaxToggles == 1    \* favourite toggles in one run
MaxSubs == 2       \* createGeneration calls in one run
NumCallerIds == 1  \* requestIds an API caller chooses itself
MaxBackoffAttempts == 4  \* failed attempts followed by a backoff in one run
RandomSteps == 4   \* Math.random() returns one of 0/RandomSteps, ...,
                   \* (RandomSteps-1)/RandomSteps

(***************************************************************************)
(* Program constants                                                       *)
(***************************************************************************)
MAX_HISTORY_ITEMS == 5
MAX_PROMPT_LENGTH == 500
MIN_PROCESSING_TIME == 1000
MAX_PROCESSING_TIME == 2000
MIN_PROMPT_LENGTH == 3

RETRY_CONFIG ==
    [maxAttempts |-> 3, baseDelay |-> 1000, maxDelay |-> 8000,
     backoffMultiplier |-> 2]

HISTORY_KEY == "modelia_generation_history"
SETTINGS_KEY == "modelia_user_settings"
SESSION_KEY == "modelia_session_data"
PREFERENCES_KEY == "modelia_user_preferences"
STORAGE_KEYS == {HISTORY_KEY, SETTINGS_KEY, SESSION_KEY, PREFERENCES_KEY}
MAX_RECENT_PROMPTS == 10

Undefined == <<>>
Some(v) == <<v>>
IsDefined(o) == Len(o) > 0

(***************************************************************************)
(* src/lib/storage.ts                                                      *)
(***************************************************************************)

\* JSON.stringify / JSON.parse of a storage record: the text wraps the value;
\* a key whose value is undefined (isFavorite) is dropped by stringify and
\* reads back as undefined.
JSONStringify(value) == [json |-> value]
JSONParse(text) == text.json

isStorageAvailable(avail) == avail

\* setItem: the write happens only when the probe write succeeds.
setItem(ls, avail, key, value) ==
    IF ~isStorageAvailable(avail) THEN ls
    ELSE [ls EXCEPT ![key] = Some(JSONStringify(value))]

\* getItem: the fallback when storage is unavailable or the key is absent.
getItem(ls, avail, key, fallback) ==
    IF ~isStorageAvailable(avail) THEN fallback
    ELSE IF IsDefined(ls[key]) THEN JSONParse(ls[key][1]) ELSE fallback

removeItem(ls, avail, key) ==
    IF ~isStorageAvailable(avail) THEN ls
    ELSE [ls EXCEPT ![key] = Undefined]

HistoryStorage(items) == [items |-> items, version |-> 1]

migrateHistoryV1(oldStorage) == <<>>

getHistoryItems(ls, avail) ==
    LET historyStorage == getItem(ls, avail, HISTORY_KEY, HistoryStorage(<<>>))
    IN  IF historyStorage.version < 1 THEN migrateHistoryV1(historyStorage)
        ELSE historyStorage.items

\* Array.prototype.slice(0, n)
Slice(seq, n) == SubSeq(seq, 1, IF Len(seq) < n THEN Len(seq) ELSE n)

\* the items saveHistoryItem writes: de-duplicate by id, prepend, keep the
\* first MAX_HISTORY_ITEMS
NoTrimHistory(newHistory) == newHistory
TrimHistory(newHistory) == Slice(newHistory, MAX_HISTORY_ITEMS)

KeepDuplicates(hist, item) == hist
FilterHistory(hist, item) ==
    LET Other(h) == h.id # item.id IN SelectSeq(hist, Other)

AppendItem(item, filteredHistory) == filteredHistory \o <<item>>
PrependItem(item, filteredHistory) == <<item>> \o filteredHistory

saveHistoryItem(ls, avail, item) ==
    LET hist == getHistoryItems(ls, avail)
        filteredHistory == FilterHistory(hist, item)
        newHistory == PrependItem(item, filteredHistory)
        trimmedHistory == TrimHistory(newHistory)
    IN  setItem(ls, avail, HISTORY_KEY, HistoryStorage(trimmedHistory))

RemoveLeavesList(ls, avail, id) ==
    setItem(ls, avail, HISTORY_KEY, HistoryStorage(getHistoryItems(ls, avail)))
removeHistoryItem(ls, avail, id) ==
    LET hist == getHistoryItems(ls, avail)
        Other(h) == h.id # id
    IN  setItem(ls, avail, HISTORY_KEY, HistoryStorage(SelectSeq(hist, Other)))

clearHistory(ls, avail) == removeItem(ls, avail, HISTORY_KEY)

\* !item.isFavorite, with isFavorite one of undefined, true, false
AlwaysFavorite(flag) == "true"
NotFavorite(flag) == IF flag = "true" THEN "false" ELSE "true"

toggleHistoryItemFavorite(ls, avail, id) ==
    LET hist == getHistoryItems(ls, avail)
        updatedHistory ==
            [i \in 1..Len(hist) |->
                IF hist[i].id = id
                THEN [hist[i] EXCEPT !.isFavorite = NotFavorite(@)]
                ELSE hist[i]]
    IN  setItem(ls, avail, HISTORY_KEY, HistoryStorage(updatedHistory))

\* SessionData and UserPreferences: of the session only generationCount is
\* kept (sessionId, the times and totalUploadSize are left out), of the
\* preferences only recentPrompts.
initializeSession == [generationCount |-> 0, version |-> 1]

\* getSessionData: the stored session, or a fresh one (which every caller
\* writes back with its update)
getSessionData(ls, avail) == getItem(ls, avail, SESSION_KEY, initializeSession)

updateSessionActivity(ls, avail) ==
    setItem(ls, avail, SESSION_KEY, getSessionData(ls, avail))

addToUploadSize(ls, avail) ==
    setItem(ls, avail, SESSION_KEY, getSessionData(ls, avail))

GenerationCountKept(ls, avail) ==
    setItem(ls, avail, SESSION_KEY, getSessionData(ls, avail))
incrementGenerationCount(ls, avail) ==
    setItem(ls, avail, SESSION_KEY,
            [getSessionData(ls, avail) EXCEPT !.generationCount = @ + 1])

DEFAULT_PREFERENCES == [recentPrompts |-> <<>>, version |-> 1]

getPreferences(ls, avail) == getItem(ls, avail, PREFERENCES_KEY, DEFAULT_PREFERENCES)

savePreferences(ls, avail, recentPrompts) ==
    setItem(ls, avail, PREFERENCES_KEY,
            [getPreferences(ls, avail) EXCEPT !.recentPrompts = recentPrompts,
                                              !.version = DEFAULT_PREFERENCES.version])

(***************************************************************************)
(* Values                                                                  *)
(***************************************************************************)

\* A data URL is its leading tokens; startsWith("data:image/") looks at them.
ValidDataUrl == <<"data:", "image/", "png;base64">>
BlobUrl == <<"blob:", "x">>
EmptyString == <<>>

startsWithDataImage(url) ==
    Len(url) >= 2 /\ url[1] = "data:" /\ url[2] = "image/"

\* A prompt is lead whitespace characters, len characters from the first to
\* the last non-blank one, trail whitespace characters; content tells whether
\* a word of the block list occurs in it.
Prompt(lead, len, trail, content) ==
    [lead |-> lead, len |-> len, trail |-> trail, content |-> content]
trim(p) == [p EXCEPT !.lead = 0, !.trail = 0]
length(p) == p.lead + p.len + p.trail

GoodPrompt == Prompt(1, 12, 0, "ok")
EmptyPrompt == Prompt(0, 0, 0, "ok")

\* the HistoryItem the store builds from a result: {...result, thumbnail}
HistoryItemOf(result, thumbnail) ==
    [id |-> result.id, prompt |-> result.prompt, style |-> result.style,
     thumbnail |-> thumbnail, isFavorite |-> "undefined"]

ItemIds == 1..NumItemIds
NewItem(id) ==
    HistoryItemOf([id |-> id, prompt |-> trim(GoodPrompt), style |-> "editorial"],
                  ValidDataUrl)

PersistedItems == getHistoryItems(localStorage, TRUE)
Ids(items) == [i \in 1..Len(items) |-> items[i].id]
Range(seq) == {seq[i] : i \in 1..Len(seq)}

\* addRecentPrompt (storage.ts): a new prompt goes first, ten are kept
addRecentPrompt(ls, avail, prompt) ==
    LET preferences == getPreferences(ls, avail)
        trimmedPrompt == trim(prompt)
    IN  IF length(trimmedPrompt) = 0
           \/ trimmedPrompt \in Range(preferences.recentPrompts)
        THEN ls
        ELSE savePreferences(ls, avail,
                 Slice(<<trimmedPrompt>> \o preferences.recentPrompts,
                       MAX_RECENT_PROMPTS))

(***************************************************************************)
(* src/lib/utils.ts: validatePrompt                                        *)
(***************************************************************************)
validatePrompt(prompt) ==
    LET trimmed == trim(prompt)
        errors ==
            IF length(trimmed) = 0 THEN {"required"}
            ELSE (IF length(trimmed) < MIN_PROMPT_LENGTH THEN {"minLength"} ELSE {})
                 \cup (IF length(trimmed) > MAX_PROMPT_LENGTH THEN {"maxLength"} ELSE {})
                 \cup (IF trimmed.content # "ok" THEN {"content"} ELSE {})
    IN  [isValid |-> errors = {}, errors |-> errors]

(***************************************************************************)
(* src/lib/api.ts                                                          *)
(***************************************************************************)
validStyles == {"editorial", "streetwear", "vintage", "luxury", "casual"}
isValidStyle(style) == style \in validStyles

ApiErrorClass(message, code, retryable, now) ==
    [name |-> "ApiError", message |-> message, code |-> code,
     retryable |-> retryable, timestamp |-> now]

\* new Error("Request aborted"): no code, retryable or timestamp
AbortError == [name |-> "Error", message |-> "Request aborted"]

\* createMockError: the message is one of errorMessages, whichever
createMockError(now) ==
    [name |-> "ApiError", message |-> "one of errorMessages",
     code |-> "MODEL_OVERLOADED", retryable |-> TRUE, timestamp |-> now]

EditorialResponse(request, id) ==
    [id |-> id, prompt |-> request.prompt, style |-> "editorial"]
createMockResponse(request, id) ==
    [id |-> id, prompt |-> request.prompt, style |-> request.style]

\* validateGenerationRequest: the error it throws, or undefined
validateGenerationRequest(request, now) ==
    IF request.imageDataUrl = EmptyString
    THEN Some(ApiErrorClass("Image data URL is required", "VALIDATION_ERROR", FALSE, now))
    ELSE IF length(request.prompt) = 0 \/ length(trim(request.prompt)) = 0
    THEN Some(ApiErrorClass("Prompt is required", "VALIDATION_ERROR", FALSE, now))
    ELSE IF length(trim(request.prompt)) > MAX_PROMPT_LENGTH
    THEN Some(ApiErrorClass("Prompt is too long (max 500 characters)",
                            "VALIDATION_ERROR", FALSE, now))
    ELSE IF ~isValidStyle(request.style)
    THEN Some(ApiErrorClass("Invalid style option", "VALIDATION_ERROR", FALSE, now))
    ELSE IF ~startsWithDataImage(request.imageDataUrl)
    THEN Some(ApiErrorClass("Invalid image data URL format", "VALIDATION_ERROR", FALSE, now))
    ELSE Undefined

isApiError(error) ==
    {"name", "message", "code", "retryable", "timestamp"} \subseteq DOMAIN error

Throw(error) == [kind |-> "throw", value |-> error]
Return(value) == [kind |-> "return", value |-> value]

\* generateImage after its processing delay: the abort check, the simulated
\* error, the response
AbortIgnored(aborted) == FALSE
AbortObserved(aborted) == aborted

generateImage(request, aborted, simulateError, id, now) ==
    IF AbortObserved(aborted) THEN Throw(AbortError)
    ELSE IF simulateError THEN Throw(createMockError(now))
    ELSE Return(createMockResponse(request, id))

\* the test that ends the retry loop: attempt === config.maxAttempts
StopsOneEarly(attempt, config) == attempt >= config.maxAttempts - 1
IsLastAttempt(attempt, config) == attempt = config.maxAttempts

\* the test that keeps an error out of the retry loop: !error.retryable
RetriesAnyError(error) == FALSE
NotRetryable(error) == ~error.retryable

\* the catch block of generateImageWithRetry: rethrow, or go on to onRetry
\* and the backoff delay
retryCatch(error, attempt, aborted, config) ==
    IF aborted THEN Throw(AbortError)
    ELSE IF isApiError(error)
    THEN IF NotRetryable(error) THEN Throw(error)
         ELSE IF IsLastAttempt(attempt, config) THEN Throw(error)
         ELSE [kind |-> "retry", value |-> error]
    ELSE Throw(error)

\* Math.pow(base, exponent) for a natural exponent
RECURSIVE Pow(_, _)
Pow(base, exponent) ==
    IF exponent = 0 THEN 1 ELSE base * Pow(base, exponent - 1)

Minimum(a, b) == IF a < b THEN a ELSE b
Maximum(a, b) == IF a > b THEN a ELSE b

\* backoffDelay = Math.min(baseDelay * multiplier^(attempt - 1), maxDelay)
DelayFromSecondPower(attempt, config) ==
    Minimum(config.baseDelay * Pow(config.backoffMultiplier, attempt), config.maxDelay)
backoffDelay(attempt, config) ==
    Minimum(config.baseDelay * Pow(config.backoffMultiplier, attempt - 1),
            config.maxDelay)

\* jitter = backoffDelay * 0.25 * (Math.random() * 2 - 1), with Math.random()
\* = r / RandomSteps: backoffDelay * (2r - RandomSteps) / (4 * RandomSteps)
HalfJitter(delay, r) == (delay * (2 * r - RandomSteps)) \div (2 * RandomSteps)
jitter(delay, r) == (delay * (2 * r - RandomSteps)) \div (4 * RandomSteps)

\* delayWithJitter = Math.max(0, backoffDelay + jitter)
delayWithJitter(attempt, config, r) ==
    LET delay == backoffDelay(attempt, config)
    IN  Maximum(0, delay + jitter(delay, r))

\* the attempt number handed to onRetry
RetryNumberOffByOne(attempt) == attempt + 1
RetryNumber(attempt) == attempt

\* RequestManager.activeRequests is the set of its entries
ControllersOf(requests, requestId) ==
    {e.controller : e \in {x \in requests : x.requestId = requestId}}
MapDelete(requests, requestId) ==
    {e \in requests : e.requestId # requestId}
MapSet(requests, requestId, controller) ==
    MapDelete(requests, requestId)
        \cup {[requestId |-> requestId, controller |-> controller]}
isRequestActive(requests, requestId) == ControllersOf(requests, requestId) # {}
getActiveRequestCount(requests) == Cardinality(requests)

\* controller.abort() on every controller of the set
AbortControllers(ss, controllers) ==
    [i \in 1..Len(ss) |->
        IF i \in controllers THEN [ss[i] EXCEPT !.aborted = TRUE] ELSE ss[i]]

\* randomId(): a value no earlier call returned
randomId(n) == <<"rand", n>>
CallerIds == {<<"caller", k>> : k \in 1..NumCallerIds}

\* an async call of createGeneration: its place (pc), the loop variables of
\* generateImageWithRetry, its controller's signal, and what was observed
NewSub(requestId, request, viaStore, pc) ==
    [requestId |-> requestId, request |-> request, viaStore |-> viaStore,
     pc |-> pc, attempt |-> 1, aborted |-> FALSE,
     calls |-> 0,            \* generateImage invocations
     failures |-> 0,         \* of them, ended with a simulated error
     retries |-> <<>>,       \* the attempt numbers onRetry was called with
     lastError |-> Undefined,
     outcome |-> "pending", settled |-> Undefined,
     saved |-> FALSE,        \* reached saveHistoryItem
     before |-> Ids(PersistedItems),   \* the persisted list at its start
     alone |-> \A i \in 1..Len(subs) :
                  subs[i].pc = "done" \/ subs[i].aborted]

(***************************************************************************)
(* Initial state: createInitialState(), an empty localStorage, no request  *)
(***************************************************************************)
Init ==
    /\ localStorage = [k \in STORAGE_KEYS |-> Undefined]
    /\ storageAvailable = TRUE
    /\ history = [items |-> <<>>, maxItems |-> MAX_HISTORY_ITEMS]
    /\ generation = [status |-> "idle", progress |-> 0,
                     currentRequest |-> Undefined, result |-> Undefined,
                     error |-> Undefined, retryCount |-> 0, canRetry |-> FALSE]
    /\ preview = [currentImage |-> Undefined, currentPrompt |-> EmptyPrompt,
                  currentStyle |-> "editorial", isGenerating |-> FALSE]
    /\ form = [prompt |-> [isValid |-> FALSE], style |-> [isValid |-> TRUE],
               image |-> [isValid |-> FALSE]]
    /\ activeRequests = {}
    /\ subs = <<>>
    /\ savedLog = Some(<<>>)
    /\ toggles = 0
    /\ resave = Undefined
    /\ removed = Undefined
    /\ cleared = FALSE
    /\ backoffs = <<>>
    /\ validation = Undefined
    /\ endpointCall = Undefined
    /\ abortHold = FALSE

(***************************************************************************)
(* History actions (store.ts history actions over storage.ts)              *)
(***************************************************************************)

\* loadHistory: the view becomes what getHistoryItems returns
loadHistory(ls, avail) == [history EXCEPT !.items = getHistoryItems(ls, avail)]

\* saveHistoryItem(item); actions.loadHistory()  (the success path's record)
RecordHistoryItem(id) ==
    LET item == NewItem(id) IN
    /\ localStorage' = saveHistoryItem(localStorage, storageAvailable, item)
    /\ history' = loadHistory(localStorage', storageAvailable)
    /\ savedLog' =
          IF IsDefined(savedLog) /\ storageAvailable
             /\ id \notin Range(Ids(savedLog[1]))
          THEN Some(Append(savedLog[1], item))
          ELSE Undefined
    /\ resave' =
          LET before == getHistoryItems(localStorage, storageAvailable) IN
          IF id \in Range(Ids(before))
          THEN Some([id |-> id, lenBefore |-> Len(before)])
          ELSE Undefined
    /\ removed' = Undefined
    /\ cleared' = FALSE
    /\ UNCHANGED <<unitVars, storageAvailable, storeVars, apiVars, toggles>>

RemoveFromHistory(id) ==
    /\ localStorage' = removeHistoryItem(localStorage, storageAvailable, id)
    /\ history' = loadHistory(localStorage', storageAvailable)
    /\ savedLog' = Undefined
    /\ resave' = Undefined
    /\ removed' = IF id \in Range(Ids(PersistedItems)) THEN Some(id) ELSE Undefined
    /\ UNCHANGED <<unitVars, storageAvailable, storeVars, apiVars, toggles, cleared>>

ToggleFavorite(id) ==
    /\ toggles < MaxToggles
    /\ toggles' = toggles + 1
    /\ localStorage' = toggleHistoryItemFavorite(localStorage, storageAvailable, id)
    /\ history' = loadHistory(localStorage', storageAvailable)
    /\ savedLog' = Undefined
    /\ resave' = Undefined
    /\ removed' = Undefined
    /\ UNCHANGED <<unitVars, storageAvailable, storeVars, apiVars, cleared>>

ClearAllHistory ==
    /\ localStorage' = clearHistory(localStorage, storageAvailable)
    /\ history' = [history EXCEPT !.items = <<>>]
    /\ savedLog' = Undefined
    /\ resave' = Undefined
    /\ removed' = Undefined
    /\ cleared' = TRUE
    /\ UNCHANGED <<unitVars, storageAvailable, storeVars, apiVars, toggles>>

NextHistory ==
    \/ \E id \in ItemIds : RecordHistoryItem(id)
    \/ \E id \in ItemIds : RemoveFromHistory(id)
    \/ \E id \in ItemIds : ToggleFavorite(id)
    \/ ClearAllHistory

SpecHistory == Init /\ [][NextHistory]_vars

\* the same history actions in a browser whose localStorage may refuse every
\* write (isStorageAvailable() false) from the start
InitStorage ==
    \E avail \in BOOLEAN :
        /\ localStorage = [k \in STORAGE_KEYS |-> Undefined]
        /\ storageAvailable = avail
        /\ history = [items |-> <<>>, maxItems |-> MAX_HISTORY_ITEMS]
        /\ generation = [status |-> "idle", progress |-> 0,
                         currentRequest |-> Undefined, result |-> Undefined,
                         error |-> Undefined, retryCount |-> 0, canRetry |-> FALSE]
        /\ preview = [currentImage |-> Undefined, currentPrompt |-> EmptyPrompt,
                      currentStyle |-> "editorial", isGenerating |-> FALSE]
        /\ form = [prompt |-> [isValid |-> FALSE], style |-> [isValid |-> TRUE],
                   image |-> [isValid |-> FALSE]]
        /\ activeRequests = {}
        /\ subs = <<>>
        /\ savedLog = Some(<<>>)
        /\ toggles = 0
        /\ resave = Undefined
        /\ removed = Undefined
        /\ cleared = FALSE
        /\ backoffs = <<>>
        /\ validation = Undefined
        /\ endpointCall = Undefined
        /\ abortHold = FALSE

SpecStorage == InitStorage /\ [][NextHistory]_vars

\* localStorage starts or stops accepting the probe write of
\* isStorageAvailable(): the quota is reached or freed, the user changes the
\* browser's storage permission. What is stored stays stored.
StorageAvailabilityChanges ==
    /\ storageAvailable' = ~storageAvailable
    /\ UNCHANGED <<localStorage, history, unitVars, storeVars, apiVars, historyGhosts>>

NextQuota ==
    \/ NextHistory
    \/ StorageAvailabilityChanges

SpecQuota == InitStorage /\ [][NextQuota]_vars

(***************************************************************************)
(* The backoff delays of one run of generateImageWithRetry whose attempts   *)
(* all fail, with the default delays and enough attempts allowed            *)
(***************************************************************************)
BackoffConfig == [RETRY_CONFIG EXCEPT !.maxAttempts = MaxBackoffAttempts + 1]

\* attempt n failed with a retryable error: await delay(delayWithJitter)
AwaitBackoff(r) ==
    LET attempt == Len(backoffs) + 1 IN
    /\ attempt < BackoffConfig.maxAttempts
    /\ backoffs' = Append(backoffs, delayWithJitter(attempt, BackoffConfig, r))
    /\ UNCHANGED <<localStorage, storageAvailable, history, storeVars, apiVars,
                   historyGhosts, validation, endpointCall>>

NextBackoff == \E r \in 0..(RandomSteps - 1) : AwaitBackoff(r)

SpecBackoff == Init /\ [][NextBackoff]_vars

(***************************************************************************)
(* The generation pipeline: store.ts startGeneration over api.ts           *)
(***************************************************************************)

\* the set() calls of the callbacks startGeneration passes to createGeneration
onRetryStore(gen, attempt, error) ==
    [gen EXCEPT !.retryCount = attempt, !.error = Some(error)]
onProgressStore(gen, progress) == [gen EXCEPT !.progress = progress]

\* the ApiError the catch branch of startGeneration builds from what it caught
storeApiError(error, now) ==
    [name |-> "ApiError", message |-> error.message,
     code |-> IF "code" \in DOMAIN error THEN error.code ELSE "UNKNOWN_ERROR",
     retryable |-> IF "retryable" \in DOMAIN error THEN error.retryable ELSE TRUE,
     timestamp |-> now]

canRetryOf(apiError, retryCount) ==
    apiError.retryable /\ retryCount < RETRY_CONFIG.maxAttempts

\* The promise of call s settles with out (a return or a throw): makeRequest
\* deletes the requestId, then startGeneration's success or catch branch runs.
\* ss, ar, gen: subs, activeRequests, generation as the handler has them so far.
Settle(s, ss, ar, gen, out) ==
    LET sub == ss[s]
        ok == out.kind = "return"
    IN  /\ subs' = [ss EXCEPT ![s] =
                      [sub EXCEPT !.pc = "done",
                                  !.outcome = IF ok THEN "resolved" ELSE "rejected",
                                  !.settled = Some(out.value),
                                  !.saved = ok /\ sub.viaStore]]
        /\ activeRequests' = MapDelete(ar, sub.requestId)
        /\ IF ~sub.viaStore
           THEN /\ generation' = gen
                /\ UNCHANGED <<preview, localStorage, history>>
           ELSE IF ok
           THEN /\ generation' = [gen EXCEPT !.status = "success", !.progress = 100,
                                             !.result = Some(out.value),
                                             !.error = Undefined, !.canRetry = FALSE]
                /\ preview' = [preview EXCEPT !.isGenerating = FALSE]
                /\ localStorage' =
                      LET saved == saveHistoryItem(localStorage, storageAvailable,
                                       HistoryItemOf(out.value, sub.request.imageDataUrl))
                          recent == addRecentPrompt(saved, storageAvailable,
                                                    sub.request.prompt)
                          counted == incrementGenerationCount(recent, storageAvailable)
                      IN  updateSessionActivity(counted, storageAvailable)
                /\ history' = loadHistory(localStorage', storageAvailable)
           ELSE /\ generation' =
                      LET apiError == storeApiError(out.value, sub.calls) IN
                      [gen EXCEPT !.status = "error", !.error = Some(apiError),
                                  !.canRetry = canRetryOf(apiError, gen.retryCount)]
                /\ preview' = [preview EXCEPT !.isGenerating = FALSE]
                /\ UNCHANGED <<localStorage, history>>

\* after the catch block of generateImageWithRetry decided d: the rejection,
\* or onRetry and the wait for the backoff delay
AfterCatch(s, ss, ar, gen, d) ==
    IF d.kind = "throw" THEN Settle(s, ss, ar, gen, d)
    ELSE /\ subs' = [ss EXCEPT ![s] =
                       [ss[s] EXCEPT !.pc = "backoff",
                                     !.retries = Append(@, RetryNumber(ss[s].attempt))]]
         /\ activeRequests' = ar
         /\ generation' =
               IF ss[s].viaStore
               THEN onRetryStore(gen, RetryNumber(ss[s].attempt), d.value)
               ELSE gen
         /\ UNCHANGED <<preview, localStorage, history>>

\* lastError = error, for an ApiError caught on a signal that is not aborted
Caught(sub, error) ==
    [sub EXCEPT !.lastError =
        IF ~sub.aborted /\ isApiError(error) THEN Some(error) ELSE @,
                !.failures =
        IF isApiError(error) /\ error.retryable THEN @ + 1 ELSE @]

\* generateImage is invoked: it validates the request, then waits for the
\* processing delay
BeginAttempt(s, ss, ar, gen) ==
    LET sub == [ss[s] EXCEPT !.calls = @ + 1, !.pc = "call"]
        invalid == validateGenerationRequest(sub.request, sub.calls)
    IN  IF IsDefined(invalid)
        THEN AfterCatch(s, [ss EXCEPT ![s] = Caught(sub, invalid[1])], ar, gen,
                        retryCatch(invalid[1], sub.attempt, sub.aborted, RETRY_CONFIG))
        ELSE /\ subs' = [ss EXCEPT ![s] = sub]
             /\ activeRequests' = ar
             /\ generation' = gen
             /\ UNCHANGED <<preview, localStorage, history>>

\* delay(100), delay(200), delay(300) of createGeneration elapse: the next
\* onProgress, and after the last one generateImageWithRetry starts
ProgressElapsed(s) ==
    /\ s \in 1..Len(subs)
    /\ subs[s].pc \in {"p1", "p2", "p3"}
    /\ IF subs[s].pc = "p1"
       THEN /\ generation' = onProgressStore(generation, 30)
            /\ subs' = [subs EXCEPT ![s].pc = "p2"]
            /\ UNCHANGED <<activeRequests, preview, localStorage, history>>
       ELSE IF subs[s].pc = "p2"
       THEN /\ generation' = onProgressStore(generation, 60)
            /\ subs' = [subs EXCEPT ![s].pc = "p3"]
            /\ UNCHANGED <<activeRequests, preview, localStorage, history>>
       ELSE BeginAttempt(s, subs, activeRequests, onProgressStore(generation, 90))
    /\ UNCHANGED <<unitVars, form, storageAvailable, abortHold, historyGhosts>>

\* the processing delay of generateImage elapses
EndpointDelayElapsed(s, simulateError) ==
    /\ s \in 1..Len(subs)
    /\ subs[s].pc = "call"
    /\ LET sub == subs[s]
           out == generateImage(sub.request, sub.aborted, simulateError, s, sub.calls)
       IN  IF out.kind = "return"
           THEN Settle(s, subs, activeRequests, generation, out)
           ELSE AfterCatch(s, [subs EXCEPT ![s] = Caught(sub, out.value)],
                           activeRequests, generation,
                           retryCatch(out.value, sub.attempt, sub.aborted, RETRY_CONFIG))
    /\ UNCHANGED <<unitVars, form, storageAvailable, abortHold, historyGhosts>>

\* the backoff delay elapses: attempt++, the loop test, the next generateImage
BackoffElapsed(s) ==
    /\ s \in 1..Len(subs)
    /\ subs[s].pc = "backoff"
    /\ LET ss == [subs EXCEPT ![s].attempt = @ + 1] IN
       IF ss[s].attempt <= RETRY_CONFIG.maxAttempts
       THEN BeginAttempt(s, ss, activeRequests, generation)
       ELSE Settle(s, ss, activeRequests, generation, Throw(ss[s].lastError[1]))
    /\ UNCHANGED <<unitVars, form, storageAvailable, abortHold, historyGhosts>>

\* RequestManager.makeRequest up to the call of requestFn: cancel the request
\* registered under the id, register the new controller
makeRequest(ss, ar, requestId, sub) ==
    [subs |-> Append(AbortControllers(ss, ControllersOf(ar, requestId)), sub),
     activeRequests |-> MapSet(ar, requestId, Len(ss) + 1)]

\* RequestManager.cancelRequest
cancelRequest(ss, ar, requestId) ==
    [subs |-> AbortControllers(ss, ControllersOf(ar, requestId)),
     activeRequests |-> MapDelete(ar, requestId)]

(***************************************************************************)
(* Store actions (store.ts)                                                *)
(***************************************************************************)
Images == {[dataUrl |-> ValidDataUrl]}
StorePrompts == {GoodPrompt, EmptyPrompt}

setCurrentImage(image) ==
    /\ preview' = [preview EXCEPT !.currentImage = image]
    /\ form' = [form EXCEPT !.image = [isValid |-> IsDefined(image)]]
    /\ localStorage' = IF IsDefined(image)
                       THEN addToUploadSize(localStorage, storageAvailable)
                       ELSE localStorage
    /\ UNCHANGED <<unitVars, generation, storageAvailable, history,
                   apiVars, historyGhosts>>

setPrompt(prompt) ==
    /\ preview' = [preview EXCEPT !.currentPrompt = prompt]
    /\ form' = [form EXCEPT !.prompt = [isValid |-> validatePrompt(prompt).isValid]]
    /\ UNCHANGED <<unitVars, generation, localStorage, storageAvailable, history,
                   apiVars, historyGhosts>>

ValidateFormSkipsPrompt == form.style.isValid /\ form.image.isValid
validateForm == form.prompt.isValid /\ form.style.isValid /\ form.image.isValid

\* startGeneration entered with store.generation = gen
startGenerationFrom(gen) ==
    IF ~validateForm \/ ~IsDefined(preview.currentImage)
    THEN /\ generation' = gen
         /\ UNCHANGED <<preview, activeRequests, subs>>
    ELSE LET requestId == randomId(Len(subs) + 1)
             request == [imageDataUrl |-> preview.currentImage[1].dataUrl,
                         prompt |-> trim(preview.currentPrompt),
                         style |-> preview.currentStyle,
                         requestId |-> Some(requestId)]
             made == makeRequest(subs, activeRequests, requestId,
                                 NewSub(requestId, request, TRUE, "p1"))
         IN  /\ Len(subs) < MaxSubs
             /\ generation' =
                   onProgressStore(
                       [gen EXCEPT !.status = "generating", !.progress = 0,
                                   !.currentRequest = Some(request),
                                   !.result = Undefined, !.error = Undefined,
                                   !.retryCount = 0, !.canRetry = FALSE],
                       10)
             /\ preview' = [preview EXCEPT !.isGenerating = TRUE]
             /\ subs' = made.subs
             /\ activeRequests' = made.activeRequests

startGeneration ==
    /\ startGenerationFrom(generation)
    /\ abortHold' = FALSE
    /\ UNCHANGED <<unitVars, form, localStorage, storageAvailable, history, historyGhosts>>

abortGeneration ==
    LET cancelled ==
            IF IsDefined(generation.currentRequest)
            THEN cancelRequest(subs, activeRequests,
                               generation.currentRequest[1].requestId[1])
            ELSE [subs |-> subs, activeRequests |-> activeRequests]
    IN  /\ subs' = cancelled.subs
        /\ activeRequests' = cancelled.activeRequests
        /\ generation' = [generation EXCEPT !.status = "aborted", !.progress = 0,
                                            !.error = Undefined, !.canRetry = FALSE]
        /\ preview' = [preview EXCEPT !.isGenerating = FALSE]
        /\ abortHold' = (abortHold \/ generation.status = "generating")
        /\ UNCHANGED <<unitVars, form, localStorage, storageAvailable, history, historyGhosts>>

retryGeneration ==
    /\ IF ~IsDefined(generation.currentRequest) \/ ~generation.canRetry
       THEN UNCHANGED <<generation, preview, activeRequests, subs>>
       ELSE startGenerationFrom(
                [generation EXCEPT !.status = "generating", !.progress = 0,
                                   !.error = Undefined])
    /\ abortHold' = FALSE
    /\ UNCHANGED <<unitVars, form, localStorage, storageAvailable, history, historyGhosts>>

Next ==
    \/ \E image \in {Some(i) : i \in Images} : setCurrentImage(image)
    \/ \E prompt \in StorePrompts : setPrompt(prompt)
    \/ startGeneration
    \/ abortGeneration
    \/ retryGeneration
    \/ \E s \in 1..MaxSubs : ProgressElapsed(s)
    \/ \E s \in 1..MaxSubs, simulateError \in BOOLEAN : EndpointDelayElapsed(s, simulateError)
    \/ \E s \in 1..MaxSubs : BackoffElapsed(s)

Spec == Init /\ [][Next]_vars

\* Every pending timer fires: the delay() promises of createGeneration,
\* generateImage and generateImageWithRetry are setTimeout timers, which the
\* event loop runs once they are due. User calls are under no obligation.
TimersFire ==
    \A s \in 1..MaxSubs :
        /\ WF_vars(ProgressElapsed(s))
        /\ WF_vars(\E simulateError \in BOOLEAN : EndpointDelayElapsed(s, simulateError))
        /\ WF_vars(BackoffElapsed(s))

SpecTimersFire == Spec /\ TimersFire

(***************************************************************************)
(* The two validators on the same inputs: validatePrompt behind setPrompt   *)
(* (the form), validateGenerationRequest in generateImage (the endpoint)    *)
(***************************************************************************)
PromptLengths ==
    {0, 1, MIN_PROMPT_LENGTH - 1, MIN_PROMPT_LENGTH, MAX_PROMPT_LENGTH - 1,
     MAX_PROMPT_LENGTH, MAX_PROMPT_LENGTH + 1}

\* prompts around the limits, with and without blanks around them and a word
\* of the block list in them
ValidationPrompts ==
    {p \in [lead : 0..1, len : PromptLengths, trail : 0..1,
            content : {"ok", "nsfw"}] :
        p.content = "nsfw" => p.len >= 4}

ValidationRequests ==
    {[imageDataUrl |-> url, prompt |-> prompt, style |-> style,
      requestId |-> Undefined] :
        url \in {ValidDataUrl, BlobUrl, EmptyString},
        prompt \in ValidationPrompts,
        style \in {"editorial", "grunge"}}

\* generateImage(request) up to its validation, and validatePrompt of the
\* same prompt
Validate(request) ==
    /\ validation' =
          Some([request |-> request,
                thrown |-> validateGenerationRequest(request, 1),
                form |-> validatePrompt(request.prompt)])
    /\ UNCHANGED <<localStorage, storageAvailable, history, storeVars, apiVars,
                   historyGhosts, backoffs, endpointCall>>

NextValidation ==
    \/ \E request \in ValidationRequests : Validate(request)
    \/ \E prompt \in ValidationPrompts : setPrompt(prompt)

SpecValidation == Init /\ [][NextValidation]_vars

(***************************************************************************)
(* One generateImage call with its random draws (api.ts)                    *)
(***************************************************************************)

\* Math.floor(Math.random() * (MAX - MIN + 1) + MIN), Math.random() = r/RandomSteps
processingTime(r) ==
    ((r * (MAX_PROCESSING_TIME - MIN_PROCESSING_TIME + 1)) \div RandomSteps)
        + MIN_PROCESSING_TIME

\* createMockResponse with the processingTime it draws itself
createMockResponseTimed(request, id, r) ==
    [response |-> createMockResponse(request, id),
     processingTime |-> processingTime(r)]

EndpointRequests ==
    {request \in ValidationRequests :
        /\ request.prompt.lead = 0 /\ request.prompt.content = "ok"
        /\ request.style = "editorial" /\ request.imageDataUrl # EmptyString}

\* generateImage(request) without a signal: validation, the delay drawn with
\* rDelay, the simulated error, the response drawn with rResponse
GenerateImageOnce(request, rDelay, simulateError, rResponse) ==
    LET invalid == validateGenerationRequest(request, 1)
        out == generateImage(request, FALSE, simulateError, 1, 1)
    IN  /\ endpointCall' =
              IF IsDefined(invalid)
              THEN Some([request |-> request, waited |-> 0,
                         out |-> Throw(invalid[1])])
              ELSE IF out.kind = "throw"
              THEN Some([request |-> request, waited |-> processingTime(rDelay),
                         out |-> out])
              ELSE Some([request |-> request, waited |-> processingTime(rDelay),
                         out |-> Return(createMockResponseTimed(request, 1, rResponse))])
        /\ UNCHANGED <<localStorage, storageAvailable, history, storeVars, apiVars,
                       historyGhosts, backoffs, validation>>

NextEndpoint ==
    \E request \in EndpointRequests, rDelay \in 0..(RandomSteps - 1),
       simulateError \in BOOLEAN, rResponse \in 0..(RandomSteps - 1) :
        GenerateImageOnce(request, rDelay, simulateError, rResponse)

SpecEndpoint == Init /\ [][NextEndpoint]_vars

(***************************************************************************)
(* Direct use of the API (api.ts createGeneration, cancelGeneration)       *)
(***************************************************************************)
ApiRequests ==
    {[imageDataUrl |-> ValidDataUrl, prompt |-> trim(GoodPrompt),
      style |-> "editorial", requestId |-> id] :
        id \in {Undefined} \cup {Some(c) : c \in CallerIds}}
    \cup
    {[imageDataUrl |-> r[1], prompt |-> trim(GoodPrompt), style |-> r[2],
      requestId |-> Undefined] :
        r \in {<<ValidDataUrl, "vintage">>, <<BlobUrl, "editorial">>}}

\* createGeneration(request, {onRetry}): no onProgress, so generateImage is
\* invoked before the call returns
createGeneration(request) ==
    LET requestId == IF IsDefined(request.requestId) THEN request.requestId[1]
                     ELSE randomId(Len(subs) + 1)
        made == makeRequest(subs, activeRequests, requestId,
                            NewSub(requestId, request, FALSE, "call"))
    IN  /\ Len(subs) < MaxSubs
        /\ BeginAttempt(Len(subs) + 1, made.subs, made.activeRequests, generation)
        /\ UNCHANGED <<unitVars, form, storageAvailable, abortHold, historyGhosts>>

cancelGeneration(requestId) ==
    LET cancelled == cancelRequest(subs, activeRequests, requestId) IN
    /\ subs' = cancelled.subs
    /\ activeRequests' = cancelled.activeRequests
    /\ UNCHANGED <<unitVars, storeVars, localStorage, storageAvailable, history, abortHold,
                   historyGhosts>>

NextApi ==
    \/ \E request \in ApiRequests : createGeneration(request)
    \/ \E requestId \in CallerIds : cancelGeneration(requestId)
    \/ \E s \in 1..MaxSubs, simulateError \in BOOLEAN : EndpointDelayElapsed(s, simulateError)
    \/ \E s \in 1..MaxSubs : BackoffElapsed(s)

SpecApi == Init /\ [][NextApi]_vars

(***************************************************************************)
(* Properties of the generation pipeline                                   *)
(***************************************************************************)
Pending(s) == subs[s].pc # "done"
Registered(s) == s \in ControllersOf(activeRequests, subs[s].requestId)
\* every generateImage call of s so far ended with a retryable error
AllFailed(s) == subs[s].calls > 0 /\ subs[s].failures = subs[s].calls
Exhausted(s) ==
    /\ ~Pending(s) /\ ~subs[s].aborted /\ AllFailed(s)
    /\ subs[s].calls = RETRY_CONFIG.maxAttempts

\* C1 (as claimed): after abortGeneration is called while the status is
\* 'generating', the generation state is status 'aborted', progress 0, no
\* error, canRetry false, and stays so until the next startGeneration or
\* retryGeneration call, also when the cancelled request settles.
C1_AbortedStays ==
    abortHold =>
        /\ generation.status = "aborted"
        /\ generation.progress = 0
        /\ generation.error = Undefined
        /\ generation.canRetry = FALSE

\* C2 (as claimed): when every endpoint attempt of a submission failed with a
\* retryable error and the 3 attempts are used up, the store is in status
\* 'error' with canRetry false.
C2_ExhaustedCannotRetry ==
    \A s \in 1..Len(subs) :
        (s = Len(subs) /\ subs[s].viaStore /\ Exhausted(s)
         /\ generation.status = "error")
            => generation.canRetry = FALSE

\* C3: when every endpoint attempt fails with a retryable error and the
\* signal is never aborted, generateImage is invoked exactly maxAttempts (3)
\* times, never more, and the promise then rejects with the error of the
\* last attempt.
C3_ExactlyMaxAttempts ==
    \A s \in 1..Len(subs) :
        (AllFailed(s) /\ ~subs[s].aborted) =>
            /\ subs[s].calls <= 3
            /\ Pending(s) => subs[s].pc = "backoff" /\ subs[s].calls < 3
            /\ ~Pending(s) =>
                  /\ subs[s].calls = 3
                  /\ subs[s].outcome = "rejected"
                  /\ subs[s].settled = Some(createMockError(3))
                  /\ subs[s].settled = subs[s].lastError

\* three attempts failed and the promise is rejected
C3_Witness ==
    \E s \in 1..Len(subs) :
        Exhausted(s) /\ subs[s].outcome = "rejected" /\ subs[s].failures = 3

\* C4 (as claimed): at most one request is registered as active in every
\* reachable state.
C4_AtMostOneActive == getActiveRequestCount(activeRequests) <= 1

\* C5 (as claimed): a request started under a requestId that an earlier
\* request used stays registered as active (so that cancelRequest reaches its
\* controller) until it settles or is cancelled itself; the earlier request
\* has its signal aborted.
C5_LaterStaysRegistered ==
    \A a, b \in 1..Len(subs) :
        (a < b /\ subs[a].requestId = subs[b].requestId) =>
            /\ subs[a].aborted \/ ~Pending(a)
            /\ (Pending(b) /\ ~subs[b].aborted) => Registered(b)

\* C6 (as claimed): when a cancelled submission settles, the persisted
\* history list equals the list before that submission started. Stated for
\* runs in which a submission starts only when every earlier one is settled
\* or cancelled.
C6_ListAsBeforeStart ==
    [][\A s \in 1..Len(subs) :
          (/\ \A t \in 1..Len(subs) : subs[t].alone
           /\ subs[s].aborted /\ Pending(s) /\ ~Pending(s)')
              => Ids(PersistedItems') = subs[s].before]_vars

\* C6 (amended): a cancelled submission never reaches saveHistoryItem: the
\* step in which it settles rejects it and leaves the persisted history list
\* as it was, whatever a submission started after the cancel has recorded.
C6_CancelledNeverSaves ==
    [][\A s \in 1..Len(subs) :
          (subs[s].aborted /\ Pending(s) /\ ~Pending(s)')
              => /\ localStorage' = localStorage
                 /\ subs'[s].outcome = "rejected"
                 /\ ~subs'[s].saved]_vars

\* a submission cancelled during its endpoint call has settled, and the list
\* an earlier submission had filled is as it was at its start
C6_Witness ==
    \E s \in 1..Len(subs) :
        /\ ~Pending(s) /\ subs[s].aborted /\ subs[s].calls > 0
        /\ subs[s].before # <<>>
        /\ Ids(PersistedItems) = subs[s].before

\* C10: within one submission whose first k attempts fail with a retryable
\* error, onRetry is called with 1, 2, ..., k in that order, call i after
\* attempt i failed and before attempt i+1 begins; when attempt k+1 succeeds
\* the promise resolves after exactly k calls (k = 1: once, with attempt 1).
C10_OnRetryInOrder ==
    \A s \in 1..Len(subs) :
        LET sub == subs[s] IN
        /\ \A i \in 1..Len(sub.retries) : sub.retries[i] = i
        /\ Len(sub.retries) <= sub.failures
        /\ sub.pc = "call" => Len(sub.retries) = sub.calls - 1
        /\ sub.pc = "backoff" => Len(sub.retries) = sub.calls
        /\ sub.outcome = "resolved" =>
              /\ Len(sub.retries) = sub.calls - 1
              /\ sub.failures = sub.calls - 1
              /\ sub.calls <= 3

\* the first attempt failed, the second succeeded: onRetry was called once,
\* with attempt 1
C10_Witness ==
    \E s \in 1..Len(subs) :
        /\ subs[s].outcome = "resolved" /\ subs[s].calls = 2
        /\ subs[s].failures = 1 /\ subs[s].retries = <<1>>

\* C11: an endpoint failure whose error has retryable = false (the
\* VALIDATION_ERROR of validateGenerationRequest) is never retried:
\* generateImage was invoked exactly once, onRetry never, and the promise is
\* rejected with that same error.
C11_NonRetryableNotRetried ==
    \A s \in 1..Len(subs) :
        LET sub == subs[s] IN
        (IsDefined(sub.lastError) /\ ~sub.lastError[1].retryable) =>
            /\ sub.calls = 1
            /\ sub.retries = <<>>
            /\ ~Pending(s)
            /\ sub.outcome = "rejected"
            /\ sub.settled = sub.lastError

\* a request whose image is no data:image/ URL was rejected with the
\* VALIDATION_ERROR of its only generateImage call
C11_Witness ==
    \E s \in 1..Len(subs) :
        /\ subs[s].request.imageDataUrl = BlobUrl
        /\ subs[s].outcome = "rejected" /\ subs[s].calls = 1
        /\ IsDefined(subs[s].settled)
        /\ subs[s].settled[1].code = "VALIDATION_ERROR"
        /\ ~subs[s].settled[1].retryable

\* C12: for every valid request, when no simulated error is drawn and the
\* signal is not aborted, the first generateImage call resolves the promise
\* with a response whose prompt and style are the request's; every response
\* a request resolves with echoes its prompt and style.
C12_ResponseEchoesRequest ==
    \A s \in 1..Len(subs) :
        LET sub == subs[s] IN
        /\ (/\ validateGenerationRequest(sub.request, 1) = Undefined
            /\ sub.calls = 1 /\ sub.failures = 0 /\ ~sub.aborted /\ ~Pending(s))
               => sub.outcome = "resolved"
        /\ sub.outcome = "resolved" =>
               /\ sub.settled[1].prompt = sub.request.prompt
               /\ sub.settled[1].style = sub.request.style

\* a 'vintage' request resolved on its first attempt
C12_Witness ==
    \E s \in 1..Len(subs) :
        /\ subs[s].request.style = "vintage"
        /\ subs[s].calls = 1 /\ subs[s].outcome = "resolved"
        /\ subs[s].settled[1].style = "vintage"

\* C13 (as claimed): between a startGeneration call and the end of that
\* submission, generation.progress never decreases from one state to the
\* next while the status stays 'generating'. Steps that start a submission
\* (startGeneration, retryGeneration) are not constrained.
C13_ProgressNeverDecreases ==
    [][(/\ generation.status = "generating"
        /\ generation'.status = "generating"
        /\ Len(subs') = Len(subs))
           => generation'.progress >= generation.progress]_vars

\* C14 (as claimed): in every reachable state of the store,
\* generation.status = 'success' implies generation.progress = 100.
C14_SuccessHasFullProgress ==
    generation.status = "success" => generation.progress = 100

\* C16 (as claimed): abortGeneration called while generation.status is
\* 'success', 'error' or 'aborted' is a no-op: it leaves the generation
\* state, the active-request table and the history unchanged.
C16_AbortOfTerminalIsNoOp ==
    [][(/\ generation.status \in {"success", "error", "aborted"}
        /\ abortGeneration)
           => UNCHANGED <<generation, activeRequests, history, localStorage>>]_vars

\* C17: startGeneration moves the store to 'generating' and issues an
\* endpoint request (a registered createGeneration call) if and only if the
\* prompt, style and image of the form are all valid; with an invalid form,
\* as in the initial state, it leaves the generation state unchanged,
\* registers no request and calls no endpoint.
C17_StartsIffFormValid ==
    [][startGeneration =>
          IF form.prompt.isValid /\ form.style.isValid /\ form.image.isValid
          THEN /\ generation'.status = "generating"
               /\ Len(subs') = Len(subs) + 1
               /\ subs'[Len(subs')].pc = "p1"
               /\ generation'.currentRequest = Some(subs'[Len(subs')].request)
               /\ isRequestActive(activeRequests', subs'[Len(subs')].requestId)
          ELSE UNCHANGED <<generation, activeRequests, subs>>]_vars

\* the first startGeneration on a valid form: 'generating', one registered
\* request; the prompt was then emptied, so the form is invalid again
C17_Witness ==
    /\ Len(subs) = 1 /\ subs[1].pc = "p1" /\ subs[1].viaStore
    /\ generation.status = "generating" /\ generation.progress = 10
    /\ getActiveRequestCount(activeRequests) = 1
    /\ form.image.isValid /\ ~form.prompt.isValid

\* C18 (as claimed): retryGeneration from status 'error' with canRetry true
\* re-submits the same request: generation.currentRequest (imageDataUrl,
\* prompt, style, requestId) after the call equals the one before it, and
\* retryCount is not reset.
C18_RetryKeepsRequest ==
    [][(/\ generation.status = "error" /\ generation.canRetry
        /\ retryGeneration)
           => /\ generation'.currentRequest = generation.currentRequest
              /\ generation'.retryCount = generation.retryCount]_vars

\* C24 (as claimed): once a submission's cancellation signal is aborted, no
\* new endpoint call (generateImage invocation) begins for that submission;
\* an abort during the backoff wait prevents the next attempt from starting.
C24_NoCallAfterAbort ==
    [][\A s \in 1..Len(subs) :
          subs[s].aborted => subs'[s].calls = subs[s].calls]_vars

\* C25 (as claimed): once the store is in status 'success', the status,
\* result, error and canRetry of the generation state stay unchanged until
\* the next startGeneration, retryGeneration or abortGeneration call,
\* whatever another submission delivers late (rejection, onRetry,
\* onProgress).
C25_SuccessStaysUntilNextCall ==
    [][(/\ generation.status = "success"
        /\ ~startGeneration /\ ~retryGeneration /\ ~abortGeneration)
           => /\ generation'.status = generation.status
              /\ generation'.result = generation.result
              /\ generation'.error = generation.error
              /\ generation'.canRetry = generation.canRetry]_vars

generationCount(ls) == getSessionData(ls, TRUE).generationCount
recentPrompts(ls) == getPreferences(ls, TRUE).recentPrompts
\* submission s resolves in the step
ResolvesNow(s) == Pending(s) /\ subs'[s].outcome = "resolved"

\* C28: with storage available, each submission that ends in success saves
\* its result as the first item of the history list, has its prompt in the
\* recent prompts and makes the session's generationCount grow by exactly 1;
\* a step in which no submission succeeds (a rejection after errors or after
\* an abort among them) changes none of the three.
C28_SuccessRecordsOnce ==
    [][IF localStorage' = localStorage
       THEN subs' # subs =>
               \A s \in 1..Len(subs) :
                   ~ResolvesNow(s) /\ subs'[s].saved = subs[s].saved
       ELSE IF \E s \in 1..Len(subs) : ResolvesNow(s)
       THEN \A s \in 1..Len(subs) :
               IF ResolvesNow(s)
               THEN /\ subs'[s].saved
                    /\ PersistedItems'[1]
                          = HistoryItemOf(subs'[s].settled[1],
                                          subs[s].request.imageDataUrl)
                    /\ subs[s].request.prompt \in Range(recentPrompts(localStorage'))
                    /\ generationCount(localStorage')
                          = generationCount(localStorage) + 1
               ELSE subs'[s].saved = subs[s].saved
       ELSE /\ PersistedItems' = PersistedItems
            /\ recentPrompts(localStorage') = recentPrompts(localStorage)
            /\ generationCount(localStorage') = generationCount(localStorage)
            /\ \A s \in 1..Len(subs) : subs'[s].saved = subs[s].saved]_vars

\* one submission was rejected and one succeeded: one item, one recent
\* prompt, generationCount 1
C28_Witness ==
    /\ \E s, t \in 1..Len(subs) :
          /\ subs[s].outcome = "rejected" /\ ~subs[s].saved
          /\ subs[t].outcome = "resolved" /\ subs[t].saved
          /\ Ids(PersistedItems) = <<t>>
          /\ recentPrompts(localStorage) = <<subs[t].request.prompt>>
    /\ generationCount(localStorage) = 1

Terminal == {"success", "error", "aborted"}

\* C29: whenever generation.status becomes 'generating', by startGeneration
\* or by retryGeneration, it eventually becomes 'success', 'error' or
\* 'aborted', provided the pending timers fire; also when the form was made
\* invalid between the error and the retryGeneration call.
C29_GeneratingEventuallyEnds ==
    (generation.status = "generating") ~> (generation.status \in Terminal)

\* the same, for a 'generating' that has a submission under way
C29_SubmissionEventuallyEnds ==
    (generation.status = "generating" /\ \E s \in 1..Len(subs) : Pending(s))
        ~> (generation.status \in Terminal)

\* 'generating' with nothing under way: retryGeneration has set the status and
\* startGeneration has returned on the invalid form
C29_Stuck ==
    /\ generation.status = "generating"
    /\ ~validateForm
    /\ Len(subs) > 0
    /\ \A s \in 1..Len(subs) : ~Pending(s)

(***************************************************************************)
(* Properties of the history list (SpecHistory)                            *)
(***************************************************************************)

Reverse(seq) == [i \in 1..Len(seq) |-> seq[Len(seq) + 1 - i]]
Min(a, b) == IF a < b THEN a ELSE b
\* the last n elements of seq
Last(seq, n) == SubSeq(seq, Len(seq) - n + 1, Len(seq))

\* C7: the persisted history list holds at most 5 items in every reachable
\* state, after any sequence of saves, removals, favourite toggles and clears
\* that starts from an empty history.
C7_HistoryAtMostFive ==
    /\ Len(PersistedItems) <= 5
    /\ Len(history.items) <= 5

\* a sixth new item was recorded and the list holds five
C7_Witness ==
    /\ IsDefined(savedLog)
    /\ Len(savedLog[1]) > MAX_HISTORY_ITEMS
    /\ Len(PersistedItems) = 5

\* C8: after n saves of items with pairwise distinct ids on an empty history
\* (storage available), getHistoryItems returns the last min(n,5) saved
\* items, most recently saved first; with n = 6 the first saved item is the
\* one that is gone.
C8_LastFiveNewestFirst ==
    IsDefined(savedLog) =>
        LET saved == savedLog[1]
            n == Len(saved)
        IN  /\ getHistoryItems(localStorage, storageAvailable)
                  = Reverse(Last(saved, Min(n, 5)))
            /\ n = 6 =>
                  /\ saved[1].id \notin Range(Ids(PersistedItems))
                  /\ \A k \in 2..6 : saved[k].id \in Range(Ids(PersistedItems))

\* six items of distinct ids were saved: the first is evicted, the second is
\* now the last of the list
C8_Witness ==
    /\ IsDefined(savedLog)
    /\ Len(savedLog[1]) = 6
    /\ PersistedItems[5] = savedLog[1][2]
    /\ PersistedItems[1] = savedLog[1][6]

\* C15 (as claimed): also when localStorage is unavailable, after
\* saveHistoryItem(item) and the loadHistory that follows it the in-memory
\* history view (history.items) contains the recorded item. (That
\* saveHistoryItem does not throw is how safeStorageOperation is modelled.)
C15_RecordedItemInView ==
    [][\A id \in ItemIds :
          RecordHistoryItem(id) => id \in Range(Ids(history'.items))]_vars

\* C30: after clearAllHistory, getHistoryItems returns the empty list in every
\* later state until the next saveHistoryItem, whether localStorage was
\* available or not when clearAllHistory was called and whether or not it
\* becomes available again afterwards.
C30_EmptyAfterClear ==
    cleared => getHistoryItems(localStorage, storageAvailable) = <<>>

\* clearAllHistory was called while localStorage refused writes; localStorage
\* accepts them again and nothing was saved since: the view is empty, the
\* stored list is not
C30_ClearedInVain ==
    /\ cleared
    /\ storageAvailable
    /\ history.items = <<>>
    /\ Len(getHistoryItems(localStorage, storageAvailable)) > 0

\* C9: the ids of the items of the history list are pairwise distinct in
\* every reachable state; a save of an item whose id is already present
\* leaves one entry with that id, the new item, first in the list, and the
\* list no longer than it was.
C9_DistinctIds ==
    /\ \A i, j \in 1..Len(PersistedItems) :
          i # j => PersistedItems[i].id # PersistedItems[j].id
    /\ IsDefined(resave) =>
          /\ PersistedItems[1] = NewItem(resave[1].id)
          /\ Len(PersistedItems) = resave[1].lenBefore

\* an item that had been marked favourite was saved again: the list of three
\* still holds three, the fresh item first
C9_Witness ==
    /\ IsDefined(resave)
    /\ toggles > 0
    /\ resave[1].lenBefore = 3
    /\ \A i \in 1..Len(PersistedItems) : PersistedItems[i].isFavorite = "undefined"

\* the list getHistoryItems returns after toggleHistoryItemFavorite(id) twice
ToggledTwice(id) ==
    getHistoryItems(
        toggleHistoryItemFavorite(
            toggleHistoryItemFavorite(localStorage, storageAvailable, id),
            storageAvailable, id),
        storageAvailable)

\* what every reader of isFavorite tests: its truth value (undefined is falsy)
Truthy(flag) == flag = "true"

Without(ids, id) == LET Other(x) == x # id IN SelectSeq(ids, Other)

C21_JitterWithinQuarter ==
    \A n \in 1..Len(backoffs) :
        LET nominal == IF 1000 * (2 ^ (n - 1)) < 8000 THEN 1000 * (2 ^ (n - 1))
                       ELSE 8000
        IN  /\ backoffs[n] >= 0
            /\ 4 * backoffs[n] >= 3 * nominal
            /\ 4 * backoffs[n] <= 5 * nominal
            /\ n = 1 => backoffs[n] >= 750 /\ backoffs[n] <= 1250

\* the lowest draw after attempt 1 and a draw above the middle after attempt 2
C21_Witness ==
    /\ Len(backoffs) = 2
    /\ backoffs[1] = 750
    /\ backoffs[2] > 2000

\* C22 (as claimed): with base 1000, multiplier 2 and max 8000 the jittered
\* backoff delay for attempt 4 lies in [6000, 8000]: the delay awaited never
\* exceeds maxDelay.
C22_AttemptFourWithinMaxDelay ==
    Len(backoffs) >= 4 =>
        /\ backoffs[4] >= 6000
        /\ backoffs[4] <= RETRY_CONFIG.maxDelay

\* C22 (amended): with base 1000, multiplier 2 and max 8000 the value before
\* jitter for attempt 4 is 8000 (the cap is applied before the jitter), and
\* the jittered delay awaited lies in [6000, 10000): it can exceed maxDelay
\* by up to 25%.
C22_AttemptFourWithinJitterOfMaxDelay ==
    /\ backoffDelay(4, RETRY_CONFIG) = 8000
    /\ Len(backoffs) >= 4 =>
          /\ backoffs[4] >= 6000
          /\ backoffs[4] < 10000
    /\ \A n \in 1..Len(backoffs) : 4 * backoffs[n] < 5 * RETRY_CONFIG.maxDelay

\* a draw above the middle after attempt 4: the delay is longer than maxDelay
C22_Witness ==
    /\ Len(backoffs) = 4
    /\ backoffs[4] > RETRY_CONFIG.maxDelay

(***************************************************************************)
(* Properties of the validators (SpecValidation)                           *)
(***************************************************************************)
InRange(n) == n >= 1 /\ n <= 500

\* C23 (as claimed): a prompt is accepted exactly when its trimmed length is
\* between 1 and 500 inclusive, and rejected with the required error at
\* trimmed length 0 and the length error above 500, by the form validator
\* (validatePrompt, form.prompt.isValid) and by the endpoint validator
\* (validateGenerationRequest) alike. Stated for requests whose image and
\* style are valid and prompts without a word of the block list.
C23_AcceptedIffOneToFiveHundred ==
    /\ preview.currentPrompt.content = "ok" =>
           form.prompt.isValid = InRange(length(trim(preview.currentPrompt)))
    /\ (/\ IsDefined(validation)
        /\ validation[1].request.prompt.content = "ok"
        /\ validation[1].request.imageDataUrl = ValidDataUrl
        /\ validation[1].request.style = "editorial")
           => LET v == validation[1]
                  n == length(trim(v.request.prompt))
              IN  /\ (v.thrown = Undefined) = InRange(n)
                  /\ v.form.isValid = InRange(n)
                  /\ n = 0 => /\ v.form.errors = {"required"}
                              /\ v.thrown[1].message = "Prompt is required"
                  /\ n > 500 =>
                        /\ v.form.errors = {"maxLength"}
                        /\ v.thrown[1].message
                              = "Prompt is too long (max 500 characters)"

\* C26 (as claimed): when a request has several invalid fields, the
\* validation error reported is that of the first failing field in the
\* priority image (presence and data-URL format), then prompt, then style; a
\* present but malformed imageDataUrl is reported before any prompt or style
\* error.
C26_ImageThenPromptThenStyle ==
    IsDefined(validation) =>
        LET v == validation[1]
            n == length(trim(v.request.prompt))
            message == IF IsDefined(v.thrown) THEN v.thrown[1].message ELSE "none"
        IN  IF v.request.imageDataUrl = EmptyString
            THEN message = "Image data URL is required"
            ELSE IF ~startsWithDataImage(v.request.imageDataUrl)
            THEN message = "Invalid image data URL format"
            ELSE IF n = 0 THEN message = "Prompt is required"
            ELSE IF n > 500 THEN message = "Prompt is too long (max 500 characters)"
            ELSE IF ~isValidStyle(v.request.style) THEN message = "Invalid style option"
            ELSE message = "none"

(***************************************************************************)
(* Properties of one endpoint call (SpecEndpoint)                          *)
(***************************************************************************)

\* C27 (as claimed): the processingTime reported in a successful
\* GenerationResponse equals the processing delay that the generateImage
\* call which produced it waited.
C27_ReportedTimeIsWaitedTime ==
    (IsDefined(endpointCall) /\ endpointCall[1].out.kind = "return") =>
        endpointCall[1].out.value.processingTime = endpointCall[1].waited

====
